---------------------------- MODULE Spec2Model ----------------------------
(***************************************************************************)
(* LinearModel of solo/methods/linear.py: a linear classifier on top of a  *)
(* backbone that is frozen or fine-tuned, driven by an external trainer.   *)
(*                                                                         *)
(* Tensors are abstracted to what the code's control flow depends on: the  *)
(* fields a metrics dict holds, whether a parameter requires a gradient,   *)
(* whether its gradient is populated, the mode (train/eval) of a module.   *)
(* Real-valued quantities are exact rationals <<numerator, denominator>>;  *)
(* a learning rate is a rational multiple of the configured one.           *)
(***************************************************************************)
EXTENDS Integers, Sequences, FiniteSets, TLC

VARIABLES
    cfg,                \* the hyperparameters stored by __init__ (self.*)
    cfg0,               \* the hyperparameters as __init__ stored them
    trainer,            \* the attached trainer's attributes read by the model
    training,           \* self.training
    backbone_training,  \* self.backbone.training
    requires_grad,      \* parameter -> requires_grad
    grad,               \* parameter -> whether .grad is populated
    loss_graph,         \* parameters the last returned loss back-propagates to
    fwd,                \* the last forward pass: caller, modes, path
    call,               \* the hook that ran last, and the modes it was entered in
    ret,                \* what the hook that ran last returned or raised
    logged,             \* the log_dict calls of the hook that ran last
    opt,                \* what configure_optimizers returned or raised
    outs,               \* validation results collected in the current epoch
    phase,              \* position of the trainer's loop
    epoch,              \* trainer.current_epoch
    batch_idx,          \* index of the next batch of the running loop
    lr,                 \* the optimizer's current learning rate
    last_epoch          \* the scheduler's step counter

vars == <<cfg, cfg0, trainer, training, backbone_training, requires_grad, grad,
          loss_graph, fwd, call, ret, logged, opt, outs, phase, epoch,
          batch_idx, lr, last_epoch>>

---------------------------------------------------------------------------
(* Bounds of the model. *)

MaxWarmupEpochs == 2
MaxMaxEpochs == 2
MaxSteppingBatches == 4
FitEpochs == 12
NumTrainBatches == 2
NumValBatches == 2
MaxOuts == 3

---------------------------------------------------------------------------
(* Values. *)

None == [type |-> "NoneType"]

Rat(n, d) == <<n, d>>
IntRat(n) == <<n, 1>>
RatEq(a, b) == a[1] * b[2] = b[1] * a[2]
\* Python's true division of two numbers, and int * float
TrueDiv(a, b) == Rat(a[1] * b[2], a[2] * b[1])
Mul(a, b) == Rat(a[1] * b[1], a[2] * b[2])

\* dict.get(key, default)
Get(d, key, default) == IF key \in DOMAIN d THEN d[key] ELSE default

Raise(exc, built) == [outcome |-> "raise", exc |-> exc, built |-> built, value |-> None]
Return(value, built) == [outcome |-> "return", exc |-> "none", built |-> built, value |-> value]

BackboneParams == {"backbone.conv", "backbone.bn"}
ClassifierParams == {"classifier.weight", "classifier.bias"}
Params == BackboneParams \cup ClassifierParams

---------------------------------------------------------------------------
(* Class attributes. *)

_OPTIMIZERS == [sgd |-> "SGD", lars |-> "LARS", adam |-> "Adam", adamw |-> "AdamW"]

_SCHEDULERS == <<"reduce", "warmup_cosine", "step", "exponential", "none">>

SchedulerNames == {_SCHEDULERS[i] : i \in 1..Len(_SCHEDULERS)}

\* gamma of the step scheduler, 0.1, as 1/GammaDen
GammaDen == 10

---------------------------------------------------------------------------
(* configure_optimizers *)

\* assert self.optimizer in self._OPTIMIZERS
optimizer_ok(self) == self.optimizer \in DOMAIN _OPTIMIZERS

\* layer_decay = self.extra_args.get("layer_decay", 0)
layer_decay_of(self) == Get(self.extra_args, "layer_decay", 0)

layer_decay_ok_nocheck(self) == TRUE

\* if layer_decay > 0: assert self.finetune
layer_decay_ok(self) == layer_decay_of(self) > 0 => self.finetune

\* the parameter groups handed to the optimizer; with layer_decay > 0 the
\* backbone's groups come from param_groups_layer_decay (the backbone is taken to
\* provide no_weight_decay()), and the classifier is appended as its own group
learnable_params(self) ==
    LET groups ==
            IF layer_decay_of(self) > 0
            THEN <<[name |-> "backbone_layers", params |-> BackboneParams,
                    layer_decay |-> layer_decay_of(self)],
                   [name |-> "classifier", params |-> ClassifierParams, layer_decay |-> 0]>>
            ELSE IF ~self.finetune
                 THEN <<[name |-> "", params |-> ClassifierParams, layer_decay |-> 0]>>
                 ELSE <<[name |-> "backbone", params |-> BackboneParams, layer_decay |-> 0],
                        [name |-> "classifier", params |-> ClassifierParams, layer_decay |-> 0]>>
    IN [groups |-> groups,
        no_wd_bias_norm |-> Get(self.extra_args, "exclude_bias_n_norm_wd", FALSE)]

\* optimizer(learnable_params, lr=self.lr, weight_decay=self.weight_decay, ...)
build_optimizer(self) ==
    [type |-> "Optimizer", cls |-> _OPTIMIZERS[self.optimizer],
     param_groups |-> learnable_params(self),
     lr |-> self.lr, weight_decay |-> self.weight_decay]

warmup_cosine_unscaled(self, tr) ==
    [scheduler |-> [type |-> "LinearWarmupCosineAnnealingLR",
                    warmup_epochs |-> IntRat(self.warmup_epochs),
                    max_epochs |-> IF self.scheduler_interval = "step"
                                   THEN IntRat(tr.estimated_stepping_batches)
                                   ELSE IntRat(self.max_epochs),
                    warmup_start_lr |-> IF self.warmup_epochs > 0
                                        THEN self.warmup_start_lr ELSE self.lr,
                    eta_min |-> self.min_lr],
     interval |-> self.scheduler_interval,
     frequency |-> 1]

\* the "warmup_cosine" branch: the schedule and its interval and frequency
warmup_cosine(self, tr) ==
    LET max_warmup_steps ==
            IF self.scheduler_interval = "step"
            THEN Mul(IntRat(self.warmup_epochs),
                     TrueDiv(IntRat(tr.estimated_stepping_batches), IntRat(self.max_epochs)))
            ELSE IntRat(self.warmup_epochs)
        max_scheduler_steps ==
            IF self.scheduler_interval = "step"
            THEN IntRat(tr.estimated_stepping_batches)
            ELSE IntRat(self.max_epochs)
    IN [scheduler |-> [type |-> "LinearWarmupCosineAnnealingLR",
                       warmup_epochs |-> max_warmup_steps,
                       max_epochs |-> max_scheduler_steps,
                       warmup_start_lr |-> IF self.warmup_epochs > 0
                                           THEN self.warmup_start_lr ELSE self.lr,
                       eta_min |-> self.min_lr],
        interval |-> self.scheduler_interval,
        frequency |-> 1]

step_scheduler_with_interval(self) ==
    [scheduler |-> [type |-> "MultiStepLR", milestones |-> self.lr_decay_steps,
                    gamma_den |-> GammaDen],
     interval |-> self.scheduler_interval,
     frequency |-> 1]

\* MultiStepLR(optimizer, self.lr_decay_steps, gamma=0.1)
step_scheduler(self) ==
    [type |-> "MultiStepLR", milestones |-> self.lr_decay_steps, gamma_den |-> GammaDen]

Built == <<"learnable_params", "optimizer">>

select_scheduler_none_as_pair(self, tr, optimizer) ==
    IF self.scheduler = "none" THEN
        Return([type |-> "tuple", optimizers |-> <<optimizer>>, schedulers |-> <<>>], Built)
    ELSE IF self.scheduler = "warmup_cosine" THEN
        Return([type |-> "tuple", optimizers |-> <<optimizer>>,
                schedulers |-> <<warmup_cosine(self, tr)>>], Built)
    ELSE IF self.scheduler = "reduce" THEN
        Return([type |-> "tuple", optimizers |-> <<optimizer>>,
                schedulers |-> <<[type |-> "ReduceLROnPlateau"]>>], Built)
    ELSE IF self.scheduler = "step" THEN
        Return([type |-> "tuple", optimizers |-> <<optimizer>>,
                schedulers |-> <<step_scheduler(self)>>], Built)
    ELSE IF self.scheduler = "exponential" THEN
        Return([type |-> "tuple", optimizers |-> <<optimizer>>,
                schedulers |-> <<[type |-> "ExponentialLR", gamma |-> self.weight_decay]>>],
               Built)
    ELSE Raise("ValueError", Built)

select_scheduler_no_else(self, tr, optimizer) ==
    IF self.scheduler = "none" THEN Return(optimizer, Built)
    ELSE IF self.scheduler = "warmup_cosine" THEN
        Return([type |-> "tuple", optimizers |-> <<optimizer>>,
                schedulers |-> <<warmup_cosine(self, tr)>>], Built)
    ELSE IF self.scheduler = "reduce" THEN
        Return([type |-> "tuple", optimizers |-> <<optimizer>>,
                schedulers |-> <<[type |-> "ReduceLROnPlateau"]>>], Built)
    ELSE IF self.scheduler = "step" THEN
        Return([type |-> "tuple", optimizers |-> <<optimizer>>,
                schedulers |-> <<step_scheduler(self)>>], Built)
    ELSE IF self.scheduler = "exponential" THEN
        Return([type |-> "tuple", optimizers |-> <<optimizer>>,
                schedulers |-> <<[type |-> "ExponentialLR", gamma |-> self.weight_decay]>>],
               Built)
    ELSE Return([type |-> "tuple", optimizers |-> <<optimizer>>, schedulers |-> <<None>>],
                Built)

\* "select scheduler": the return value for each scheduler name
select_scheduler(self, tr, optimizer) ==
    IF self.scheduler = "none" THEN Return(optimizer, Built)
    ELSE IF self.scheduler = "warmup_cosine" THEN
        Return([type |-> "tuple", optimizers |-> <<optimizer>>,
                schedulers |-> <<warmup_cosine(self, tr)>>], Built)
    ELSE IF self.scheduler = "reduce" THEN
        Return([type |-> "tuple", optimizers |-> <<optimizer>>,
                schedulers |-> <<[type |-> "ReduceLROnPlateau"]>>], Built)
    ELSE IF self.scheduler = "step" THEN
        Return([type |-> "tuple", optimizers |-> <<optimizer>>,
                schedulers |-> <<step_scheduler(self)>>], Built)
    ELSE IF self.scheduler = "exponential" THEN
        Return([type |-> "tuple", optimizers |-> <<optimizer>>,
                schedulers |-> <<[type |-> "ExponentialLR", gamma |-> self.weight_decay]>>],
               Built)
    ELSE Raise("ValueError", Built)

configure_optimizers(self, tr) ==
    IF ~optimizer_ok(self) THEN Raise("AssertionError", <<>>)
    ELSE IF ~layer_decay_ok(self) THEN Raise("AssertionError", <<>>)
    ELSE select_scheduler(self, tr, build_optimizer(self))


---------------------------------------------------------------------------
(* __init__ *)

init_requires_grad_no_freeze(finetune) == [p \in Params |-> TRUE]

\* parameters arrive trainable (the nn.Parameter default); the backbone's are
\* frozen unless finetune
init_requires_grad(finetune) ==
    [p \in Params |-> IF ~finetune /\ p \in BackboneParams THEN FALSE ELSE TRUE]

\* the module as the hooks below see it
Module == [finetune |-> cfg.finetune, mixup_func |-> cfg.mixup_func,
           training |-> training, backbone_training |-> backbone_training,
           requires_grad |-> requires_grad]

---------------------------------------------------------------------------
(* forward, shared_step, training_step, validation_step *)

\* the backbone runs under torch.set_grad_enabled(self.finetune), the classifier
\* outside it: graph is the set of parameters the logits back-propagate to
forward(self) ==
    LET grad_enabled == self.finetune
    IN [backbone_training |-> self.backbone_training,
        grad_enabled |-> grad_enabled,
        graph |-> {p \in BackboneParams : grad_enabled /\ self.requires_grad[p]}
                  \cup {p \in ClassifierParams : self.requires_grad[p]}]

shared_step_mixup_whenever_configured(self, batch) ==
    LET out == forward(self)
    IN IF self.mixup_func # "None"
       THEN [metrics |-> [batch_size |-> batch.size, loss |-> batch.loss],
             path |-> "mixup", loss_fn |-> "loss_func", fwd |-> out]
       ELSE [metrics |-> [batch_size |-> batch.size, loss |-> batch.loss,
                          acc1 |-> batch.acc1, acc5 |-> batch.acc5],
             path |-> "standard", loss_fn |-> "cross_entropy", fwd |-> out]

\* batch carries X.size(0) and the values the loss and accuracy functions yield
shared_step(self, batch) ==
    LET out == forward(self)
    IN IF self.training /\ self.mixup_func # "None"
       THEN [metrics |-> [batch_size |-> batch.size, loss |-> batch.loss],
             path |-> "mixup", loss_fn |-> "loss_func", fwd |-> out]
       ELSE [metrics |-> [batch_size |-> batch.size, loss |-> batch.loss,
                          acc1 |-> batch.acc1, acc5 |-> batch.acc5],
             path |-> "standard", loss_fn |-> "cross_entropy", fwd |-> out]

\* a scalar tensor
Tensor(item) == [type |-> "Tensor", item |-> item]

Raised(exc) == [outcome |-> "raise", exc |-> exc, value |-> None]
Returned(value) == [outcome |-> "return", exc |-> "none", value |-> value]

\* what a hook hands back: the module's new backbone mode, the hook's result,
\* its log_dict calls and the shared_step it ran
StepResult(bt, r, log, ss) ==
    [backbone_training |-> bt, ret |-> r, logged |-> log,
     path |-> ss.path, metrics |-> ss.metrics, fwd |-> ss.fwd]

training_step_no_eval(self, batch) ==
    LET ss == shared_step(self, batch)
        out == ss.metrics
        reads == IF self.mixup_func = "None" THEN {"loss", "acc1", "acc5"} ELSE {"loss"}
    IN IF ~(reads \subseteq DOMAIN out)
       THEN StepResult(self.backbone_training, Raised("KeyError"), <<>>, ss)
       ELSE StepResult(self.backbone_training, Returned(Tensor(out.loss)),
                <<[values |-> IF self.mixup_func = "None"
                              THEN [train_loss |-> out.loss, train_acc1 |-> out.acc1,
                                    train_acc5 |-> out.acc5]
                              ELSE [train_loss |-> out.loss],
                   on_epoch |-> TRUE, sync_dist |-> TRUE]>>, ss)

training_step_acc_by_mode(self, batch) ==
    LET self1 == IF ~self.finetune THEN [self EXCEPT !.backbone_training = FALSE] ELSE self
        ss == shared_step(self1, batch)
        out == ss.metrics
        reads == IF ~self.training THEN {"loss", "acc1", "acc5"} ELSE {"loss"}
    IN IF ~(reads \subseteq DOMAIN out)
       THEN StepResult(self1.backbone_training, Raised("KeyError"), <<>>, ss)
       ELSE StepResult(self1.backbone_training, Returned(Tensor(out.loss)),
                <<[values |-> IF ~self.training
                              THEN [train_loss |-> out.loss, train_acc1 |-> out.acc1,
                                    train_acc5 |-> out.acc5]
                              ELSE [train_loss |-> out.loss],
                   on_epoch |-> TRUE, sync_dist |-> TRUE]>>, ss)

\* reads: the keys of out the hook indexes; a key out lacks raises KeyError
training_step(self, batch) ==
    LET self1 == IF ~self.finetune THEN [self EXCEPT !.backbone_training = FALSE] ELSE self
        ss == shared_step(self1, batch)
        out == ss.metrics
        reads == IF self.mixup_func = "None" THEN {"loss", "acc1", "acc5"} ELSE {"loss"}
    IN IF ~(reads \subseteq DOMAIN out)
       THEN StepResult(self1.backbone_training, Raised("KeyError"), <<>>, ss)
       ELSE StepResult(self1.backbone_training, Returned(Tensor(out.loss)),
                <<[values |-> IF self.mixup_func = "None"
                              THEN [train_loss |-> out.loss, train_acc1 |-> out.acc1,
                                    train_acc5 |-> out.acc5]
                              ELSE [train_loss |-> out.loss],
                   on_epoch |-> TRUE, sync_dist |-> TRUE]>>, ss)

validation_step(self, batch) ==
    LET ss == shared_step(self, batch)
        out == ss.metrics
        reads == {"batch_size", "loss", "acc1", "acc5"}
    IN IF ~(reads \subseteq DOMAIN out)
       THEN StepResult(self.backbone_training, Raised("KeyError"), <<>>, ss)
       ELSE StepResult(self.backbone_training,
                Returned([batch_size |-> out.batch_size, val_loss |-> out.loss,
                          val_acc1 |-> out.acc1, val_acc5 |-> out.acc5]),
                <<>>, ss)

---------------------------------------------------------------------------
(* validation_epoch_end *)

RECURSIVE WeightedSum(_, _, _)
WeightedSum(outputs, key, batch_size_key) ==
    IF outputs = <<>> THEN 0
    ELSE Head(outputs)[batch_size_key] * Head(outputs)[key]
         + WeightedSum(Tail(outputs), key, batch_size_key)

RECURSIVE SizeSum(_, _)
SizeSum(outputs, batch_size_key) ==
    IF outputs = <<>> THEN 0
    ELSE Head(outputs)[batch_size_key] + SizeSum(Tail(outputs), batch_size_key)

\* solo.utils.metrics.weighted_mean: sum of batch_size * value over sum of batch_size
weighted_mean(outputs, key, batch_size_key) ==
    Rat(WeightedSum(outputs, key, batch_size_key), SizeSum(outputs, batch_size_key))

validation_epoch_end_loss_for_acc1(outputs) ==
    LET val_loss == weighted_mean(outputs, "val_loss", "batch_size")
        val_acc1 == weighted_mean(outputs, "val_loss", "batch_size")
        val_acc5 == weighted_mean(outputs, "val_acc5", "batch_size")
    IN IF val_loss[2] = 0
       THEN [ret |-> Raised("ZeroDivisionError"), logged |-> <<>>]
       ELSE [ret |-> Returned(None),
             logged |-> <<[values |-> [val_loss |-> val_loss, val_acc1 |-> val_acc1,
                                       val_acc5 |-> val_acc5],
                           sync_dist |-> TRUE]>>]

validation_epoch_end(outputs) ==
    LET val_loss == weighted_mean(outputs, "val_loss", "batch_size")
        val_acc1 == weighted_mean(outputs, "val_acc1", "batch_size")
        val_acc5 == weighted_mean(outputs, "val_acc5", "batch_size")
    IN IF val_loss[2] = 0
       THEN [ret |-> Raised("ZeroDivisionError"), logged |-> <<>>]
       ELSE [ret |-> Returned(None),
             logged |-> <<[values |-> [val_loss |-> val_loss, val_acc1 |-> val_acc1,
                                       val_acc5 |-> val_acc5],
                           sync_dist |-> TRUE]>>]

---------------------------------------------------------------------------
(* The trainer's side: the optimizer, the scheduler, the loops. *)

Unset == [outcome |-> "unset", exc |-> "none", built |-> <<>>, value |-> None]

\* the parameters the configured optimizer holds
OptimizerParams(o) ==
    IF o.outcome # "return" THEN {}
    ELSE LET optimizer == IF o.value.type = "tuple" THEN o.value.optimizers[1] ELSE o.value
             groups == optimizer.param_groups.groups
         IN UNION {groups[i].params : i \in 1..Len(groups)}

\* the trainer's reading of the returned scheduler list: a bare scheduler is
\* stepped once per epoch, a dict as its "interval" says
TrainerScheduler(o) ==
    IF o.outcome = "return" /\ o.value.type = "tuple" /\ Len(o.value.schedulers) > 0
    THEN LET s == o.value.schedulers[1]
         IN [present |-> TRUE,
             scheduler |-> IF "scheduler" \in DOMAIN s THEN s.scheduler ELSE s,
             interval |-> Get(s, "interval", "epoch")]
    ELSE [present |-> FALSE, scheduler |-> None, interval |-> "none"]

MilestoneCount(milestones, e) == Cardinality({i \in 1..Len(milestones) : milestones[i] = e})

\* scheduler.step(): MultiStepLR multiplies the rate by gamma once per milestone
\* equal to the new step count
scheduler_step(s, rate, le) ==
    [last_epoch |-> le + 1,
     lr |-> IF s.type = "MultiStepLR"
            THEN Rat(rate[1], rate[2] * GammaDen ^ MilestoneCount(s.milestones, le + 1))
            ELSE rate]

\* the trainer steps the scheduler when its interval is the one that just ended
StepScheduler(interval) ==
    LET ts == TrainerScheduler(opt)
    IN IF ts.present /\ ts.interval = interval
       THEN /\ lr' = scheduler_step(ts.scheduler, lr, last_epoch).lr
            /\ last_epoch' = scheduler_step(ts.scheduler, lr, last_epoch).last_epoch
       ELSE UNCHANGED <<lr, last_epoch>>

---------------------------------------------------------------------------
(* Inputs. *)

EmptyDict == <<>>

Config(optimizer, scheduler, finetune, mixup_func, scheduler_interval, lr_decay_steps, warmup_epochs, max_epochs, extra_args) ==
    [optimizer |-> optimizer, scheduler |-> scheduler, finetune |-> finetune,
     mixup_func |-> mixup_func, scheduler_interval |-> scheduler_interval,
     lr_decay_steps |-> lr_decay_steps, warmup_epochs |-> warmup_epochs,
     max_epochs |-> max_epochs, extra_args |-> extra_args,
     lr |-> 300, weight_decay |-> 1, warmup_start_lr |-> 3, min_lr |-> 0]

OptimizerInputs == {"sgd", "lars", "adam", "adamw", "rmsprop"}
SchedulerInputs == SchedulerNames \cup {"cosine"}
MixupInputs == {"None", "mixup"}
IntervalInputs == {"step", "epoch"}
ExtraArgsInputs == {EmptyDict, [layer_decay |-> 0], [layer_decay |-> -1], [layer_decay |-> 75],
                    [exclude_bias_n_norm_wd |-> TRUE],
                    [layer_decay |-> 75, exclude_bias_n_norm_wd |-> TRUE]}

Batch(size, loss, acc1, acc5) == [size |-> size, loss |-> loss, acc1 |-> acc1, acc5 |-> acc5]

\* batches with the values their loss and accuracies come to
Batches == {Batch(n, l, a, 100) : n \in {2, 3}, l \in 1..3, a \in {0, 100}}
SmallBatches == {Batch(2, 1, 0, 100), Batch(1, 2, 100, 100)}

\* the state __init__ leaves: a module is created in training mode, the injected
\* backbone in either mode, no gradient computed yet
InitModule(c) ==
    /\ cfg = c
    /\ cfg0 = c
    /\ training = TRUE
    /\ backbone_training \in BOOLEAN
    /\ requires_grad = init_requires_grad(c.finetune)
    /\ grad = [p \in Params |-> FALSE]
    /\ loss_graph = {}
    /\ fwd = [caller |-> "none", training |-> FALSE, backbone_training |-> FALSE,
              grad_enabled |-> FALSE, path |-> "none", fields |-> {}]
    /\ call = [op |-> "__init__", training |-> TRUE, backbone_training |-> backbone_training]
    /\ ret = Returned(None)
    /\ logged = <<>>
    /\ opt = Unset
    /\ outs = <<>>
    /\ epoch = 0
    /\ batch_idx = 0
    /\ lr = IntRat(c.lr)
    /\ last_epoch = 0

Called(op) == [op |-> op, training |-> training, backbone_training |-> backbone_training]

---------------------------------------------------------------------------
(* The hooks as state changes. *)

\* nn.Module.train(): the module and every child
DoTrain ==
    /\ training' = TRUE
    /\ backbone_training' = TRUE
    /\ call' = Called("train")
    /\ UNCHANGED <<cfg, cfg0, trainer, requires_grad, grad, loss_graph, fwd, ret, logged,
                   opt, outs, epoch, lr, last_epoch>>

\* nn.Module.eval()
DoEval ==
    /\ training' = FALSE
    /\ backbone_training' = FALSE
    /\ call' = Called("eval")
    /\ UNCHANGED <<cfg, cfg0, trainer, requires_grad, grad, loss_graph, fwd, ret, logged,
                   opt, epoch, lr, last_epoch>>

DoConfigureOptimizers ==
    /\ opt' = configure_optimizers(cfg, trainer)
    /\ lr' = IntRat(cfg.lr)
    /\ last_epoch' = 0
    /\ call' = Called("configure_optimizers")
    /\ UNCHANGED <<cfg, cfg0, trainer, training, backbone_training, requires_grad, grad,
                   loss_graph, fwd, ret, logged, outs, epoch, batch_idx>>

DoTrainingStep(batch) ==
    LET r == training_step(Module, batch)
    IN /\ backbone_training' = r.backbone_training
       /\ ret' = r.ret
       /\ logged' = r.logged
       /\ fwd' = [caller |-> "training_step", training |-> training,
                  backbone_training |-> r.fwd.backbone_training,
                  grad_enabled |-> r.fwd.grad_enabled, path |-> r.path,
                  fields |-> DOMAIN r.metrics]
       /\ loss_graph' = IF r.ret.outcome = "return" THEN r.fwd.graph ELSE {}
       /\ call' = Called("training_step")
       /\ UNCHANGED <<cfg, cfg0, trainer, training, requires_grad, grad, opt, outs,
                      epoch, lr, last_epoch>>

DoValidationStep(batch) ==
    LET r == validation_step(Module, batch)
    IN /\ backbone_training' = r.backbone_training
       /\ ret' = r.ret
       /\ logged' = r.logged
       /\ fwd' = [caller |-> "validation_step", training |-> training,
                  backbone_training |-> r.fwd.backbone_training,
                  grad_enabled |-> r.fwd.grad_enabled, path |-> r.path,
                  fields |-> DOMAIN r.metrics]
       /\ outs' = IF r.ret.outcome = "return" THEN Append(outs, r.ret.value) ELSE outs
       /\ call' = Called("validation_step")
       /\ UNCHANGED <<cfg, cfg0, trainer, training, requires_grad, grad, loss_graph, opt,
                      epoch, lr, last_epoch>>

DoValidationEpochEnd ==
    LET r == validation_epoch_end(outs)
    IN /\ ret' = r.ret
       /\ logged' = r.logged
       /\ call' = [op |-> "validation_epoch_end", training |-> training,
                   backbone_training |-> backbone_training, outs |-> outs]
       /\ outs' = <<>>
       /\ UNCHANGED <<cfg, cfg0, trainer, training, backbone_training, requires_grad, grad,
                      loss_graph, fwd, opt, epoch, lr, last_epoch>>

\* loss.backward(): every parameter the loss back-propagates to gets a gradient
DoBackward(zeroed) ==
    /\ grad' = [p \in Params |-> p \in loss_graph \/ (grad[p] /\ p \notin zeroed)]
    /\ call' = Called("backward")
    /\ UNCHANGED <<cfg, cfg0, trainer, training, backbone_training, requires_grad,
                   loss_graph, fwd, ret, logged, opt, outs, epoch, lr, last_epoch>>

---------------------------------------------------------------------------
(* Hooks called in any order, as a test or a script calls them. *)

Train == DoTrain /\ UNCHANGED <<phase, batch_idx>>

Eval == DoEval /\ UNCHANGED <<outs, phase, batch_idx>>

ConfigureOptimizers == DoConfigureOptimizers /\ UNCHANGED phase

TrainingStep == \E batch \in SmallBatches : DoTrainingStep(batch) /\ UNCHANGED <<phase, batch_idx>>

ValidationStep ==
    /\ Len(outs) < NumValBatches
    /\ \E batch \in SmallBatches : DoValidationStep(batch) /\ UNCHANGED <<phase, batch_idx>>

ValidationEpochEnd == DoValidationEpochEnd /\ UNCHANGED <<phase, batch_idx>>

Backward ==
    /\ call.op = "training_step"
    /\ ret.outcome = "return"
    /\ DoBackward({})
    /\ UNCHANGED <<phase, batch_idx>>

\* optimizer.step(): parameter values change, which the model does not track
OptimizerStep ==
    /\ opt.outcome = "return"
    /\ call' = Called("optimizer_step")
    /\ UNCHANGED <<cfg, cfg0, trainer, training, backbone_training, requires_grad, grad,
                   loss_graph, fwd, ret, logged, opt, outs, phase, epoch, batch_idx,
                   lr, last_epoch>>

\* optimizer.zero_grad()
ZeroGrad ==
    /\ opt.outcome = "return"
    /\ grad' = [p \in Params |-> grad[p] /\ p \notin OptimizerParams(opt)]
    /\ call' = Called("zero_grad")
    /\ UNCHANGED <<cfg, cfg0, trainer, training, backbone_training, requires_grad,
                   loss_graph, fwd, ret, logged, opt, outs, phase, epoch, batch_idx,
                   lr, last_epoch>>

AnyConfigs ==
    {Config("sgd", "none", ft, mx, "step", <<5, 10>>, 0, 1, ea) :
        ft \in BOOLEAN, mx \in MixupInputs, ea \in {EmptyDict, [layer_decay |-> 75]}}

InitAny ==
    /\ \E c \in AnyConfigs : InitModule(c)
    /\ trainer = [estimated_stepping_batches |-> 1]
    /\ phase = "any"

NextAny ==
    \/ Train
    \/ Eval
    \/ ConfigureOptimizers
    \/ TrainingStep
    \/ Backward
    \/ OptimizerStep
    \/ ZeroGrad
    \/ ValidationStep
    \/ ValidationEpochEnd

SpecAny == InitAny /\ [][NextAny]_vars

---------------------------------------------------------------------------
(* configure_optimizers over its inputs. *)

ConfigureConfigs ==
    {Config(o, s, ft, "None", itv, <<5, 10>>, wu, me, ea) :
        o \in OptimizerInputs, s \in SchedulerInputs, ft \in BOOLEAN,
        itv \in IntervalInputs, wu \in 0..MaxWarmupEpochs, me \in 1..MaxMaxEpochs,
        ea \in ExtraArgsInputs}

InitConfigure ==
    /\ \E c \in ConfigureConfigs : InitModule(c)
    /\ trainer \in [estimated_stepping_batches : 1..MaxSteppingBatches]
    /\ phase = "setup"

NextConfigure == ConfigureOptimizers

SpecConfigure == InitConfigure /\ [][NextConfigure]_vars

---------------------------------------------------------------------------
(* One validation epoch over a loader of up to MaxOuts batches. *)

\* the model goes to evaluation mode before every evaluation loop
EvalLoopStart ==
    /\ phase \in {"sanity_start", "val_start"}
    /\ DoEval
    /\ phase' = IF phase = "sanity_start" THEN "sanity" ELSE "val"
    /\ batch_idx' = 0
    /\ outs' = <<>>

LoaderValidationStep ==
    /\ phase = "val"
    /\ Len(outs) < MaxOuts
    /\ \E batch \in Batches : DoValidationStep(batch)
    /\ batch_idx' = batch_idx + 1
    /\ UNCHANGED phase

LoaderValidationEpochEnd ==
    /\ phase = "val"
    /\ DoValidationEpochEnd
    /\ phase' = "val_done"
    /\ UNCHANGED batch_idx

ValidationConfigs ==
    {Config("sgd", "none", ft, mx, "step", <<5, 10>>, 0, 1, EmptyDict) :
        ft \in BOOLEAN, mx \in MixupInputs}

InitValidation ==
    /\ \E c \in ValidationConfigs : InitModule(c)
    /\ trainer = [estimated_stepping_batches |-> 1]
    /\ phase = "val_start"

NextValidation ==
    \/ EvalLoopStart
    \/ LoaderValidationStep
    \/ LoaderValidationEpochEnd

SpecValidation == InitValidation /\ [][NextValidation]_vars

---------------------------------------------------------------------------
(* trainer.fit: setup, sanity validation, then per epoch the training       *)
(* batches, a validation run and the epoch's end.                           *)

FitSetup ==
    /\ phase = "setup"
    /\ DoConfigureOptimizers
    /\ phase' = IF configure_optimizers(cfg, trainer).outcome = "return"
                THEN "sanity_start" ELSE "failed"

FitValidationStep ==
    /\ phase \in {"sanity", "val"}
    /\ batch_idx < NumValBatches
    /\ \E batch \in SmallBatches :
          /\ DoValidationStep(batch)
          /\ phase' = IF validation_step(Module, batch).ret.outcome = "return"
                      THEN phase ELSE "failed"
    /\ batch_idx' = batch_idx + 1

FitValidationEpochEnd ==
    /\ phase \in {"sanity", "val"}
    /\ batch_idx = NumValBatches
    /\ DoValidationEpochEnd
    /\ phase' = IF validation_epoch_end(outs).ret.outcome # "return" THEN "failed"
                ELSE IF phase = "sanity" THEN "sanity_done" ELSE "val_done"
    /\ UNCHANGED batch_idx

\* the model goes back to training mode after every evaluation loop
FitTrainMode ==
    /\ phase \in {"sanity_done", "val_done"}
    /\ DoTrain
    /\ phase' = IF phase = "sanity_done" THEN "train" ELSE "epoch_end"
    /\ batch_idx' = 0

FitTrainingStep ==
    /\ phase = "train"
    /\ batch_idx < NumTrainBatches
    /\ \E batch \in SmallBatches :
          /\ DoTrainingStep(batch)
          /\ phase' = IF training_step(Module, batch).ret.outcome = "return"
                      THEN "backward" ELSE "failed"
    /\ UNCHANGED batch_idx

\* the optimizer's closure: zero_grad, then backward on the returned loss
FitBackward ==
    /\ phase = "backward"
    /\ DoBackward(OptimizerParams(opt))
    /\ phase' = "optimizer_step"
    /\ UNCHANGED batch_idx

\* optimizer.step(), then the scheduler if it is stepped per optimizer step
FitOptimizerStep ==
    /\ phase = "optimizer_step"
    /\ StepScheduler("step")
    /\ batch_idx' = batch_idx + 1
    /\ phase' = IF batch_idx + 1 = NumTrainBatches THEN "val_start" ELSE "train"
    /\ call' = Called("optimizer_step")
    /\ UNCHANGED <<cfg, cfg0, trainer, training, backbone_training, requires_grad, grad,
                   loss_graph, fwd, ret, logged, opt, outs, epoch>>

\* the epoch ends: the scheduler if it is stepped per epoch, then the next epoch
FitEpochEnd ==
    /\ phase = "epoch_end"
    /\ StepScheduler("epoch")
    /\ epoch' = epoch + 1
    /\ phase' = IF epoch + 1 >= cfg.max_epochs THEN "done" ELSE "train"
    /\ call' = Called("epoch_end")
    /\ UNCHANGED <<cfg, cfg0, trainer, training, backbone_training, requires_grad, grad,
                   loss_graph, fwd, ret, logged, opt, outs, batch_idx>>

LrDecayStepsInputs == {<<5, 10>>, <<2>>}

FitConfigs ==
    {Config("sgd", s, ft, mx, itv, steps, 0, FitEpochs, ea) :
        s \in {"none", "step"}, ft \in BOOLEAN, mx \in MixupInputs,
        itv \in IntervalInputs, steps \in LrDecayStepsInputs,
        ea \in {EmptyDict, [layer_decay |-> 75]}}

InitFit ==
    /\ \E c \in FitConfigs : InitModule(c)
    /\ trainer = [estimated_stepping_batches |-> NumTrainBatches * FitEpochs]
    /\ phase = "setup"

NextFit ==
    \/ FitSetup
    \/ EvalLoopStart
    \/ FitValidationStep
    \/ FitValidationEpochEnd
    \/ FitTrainMode
    \/ FitTrainingStep
    \/ FitBackward
    \/ FitOptimizerStep
    \/ FitEpochEnd

SpecFit == InitFit /\ [][NextFit]_vars

---------------------------------------------------------------------------
(* Properties. *)

BackwardDone == call.op = "backward"

\* C1: with fine-tuning disabled, in every state reachable by any sequence of
\* mode switches, configure_optimizers, training and validation steps,
\* validation_epoch_end, backward passes and zero_grad, every backbone parameter
\* has requires_grad off and no backbone gradient is populated; with fine-tuning
\* enabled, a training_step that took the standard (non-mixup) path followed by
\* backward leaves the gradient of at least one backbone parameter populated.
C1_BackboneGradients ==
    /\ ~cfg.finetune =>
          \A p \in BackboneParams : ~requires_grad[p] /\ ~grad[p]
    /\ (cfg.finetune /\ BackwardDone /\ fwd.caller = "training_step"
            /\ fwd.path = "standard") =>
          \E p \in BackboneParams : grad[p]

\* the frozen case after a training step and backward: the classifier has
\* gradients, the backbone none
C1_Witness ==
    /\ ~cfg.finetune
    /\ BackwardDone
    /\ fwd.path = "standard"
    /\ \A p \in ClassifierParams : grad[p]
    /\ \A p \in BackboneParams : ~grad[p]

\* the fine-tuned case: backward after a standard-path training step
C1_FinetuneCase ==
    /\ cfg.finetune
    /\ BackwardDone
    /\ fwd.path = "standard"
    /\ \A p \in BackboneParams : grad[p]

\* C2: with fine-tuning disabled, the backbone is in eval mode at every forward
\* pass run inside training_step, whatever the modes of the module and of the
\* backbone were when training_step was entered; with fine-tuning enabled,
\* training_step leaves the backbone's mode as it found it.
C2_BackboneEvalInTrainingStep ==
    /\ (fwd.caller = "training_step" /\ ~cfg.finetune) => ~fwd.backbone_training
    /\ (call.op = "training_step" /\ ~cfg.finetune) => ~backbone_training
    /\ (call.op = "training_step" /\ cfg.finetune) =>
          /\ backbone_training = call.backbone_training
          /\ fwd.backbone_training = call.backbone_training

\* a frozen-backbone training step entered with module and backbone in training mode
C2_Witness ==
    /\ call.op = "training_step"
    /\ ~cfg.finetune
    /\ call.training
    /\ call.backbone_training
    /\ ~fwd.backbone_training

\* C3: every validation_step the trainer runs (sanity check and every epoch's
\* validation, after any number of training steps) takes shared_step's standard
\* path whether or not a mixup function is configured, returns exactly the fields
\* batch_size, val_loss, val_acc1, val_acc5 and logs nothing.
C3_ValidationStandardPath ==
    call.op = "validation_step" =>
        /\ fwd.caller = "validation_step"
        /\ fwd.path = "standard"
        /\ ret.outcome = "return"
        /\ DOMAIN ret.value = {"batch_size", "val_loss", "val_acc1", "val_acc5"}
        /\ logged = <<>>

\* a validation step with mixup configured, after two epochs of training steps
C3_Witness ==
    /\ call.op = "validation_step"
    /\ cfg.mixup_func = "mixup"
    /\ epoch = 2
    /\ phase = "val"
    /\ ret.outcome = "return"

ConfigureRan == opt.outcome # "unset"

ValidOptimizer == cfg.optimizer \in {"sgd", "lars", "adam", "adamw"}

ValidScheduler == cfg.scheduler \in {"reduce", "warmup_cosine", "step", "exponential", "none"}

LayerDecayPositive ==
    "layer_decay" \in DOMAIN cfg.extra_args /\ cfg.extra_args["layer_decay"] > 0

\* C6: for every valid optimizer and scheduler name, configure_optimizers fails
\* whenever extra_args holds a layer_decay > 0 and fine-tuning is disabled; with
\* layer_decay absent or not positive it succeeds with fine-tuning on and off.
C6_LayerDecayNeedsFinetune ==
    (ConfigureRan /\ ValidOptimizer /\ ValidScheduler) =>
        /\ (LayerDecayPositive /\ ~cfg.finetune) => opt.outcome = "raise"
        /\ ~LayerDecayPositive => opt.outcome = "return"

\* layer_decay 0.75 without fine-tuning, with valid names: the call failed
C6_Witness ==
    /\ ConfigureRan
    /\ ValidOptimizer
    /\ ValidScheduler
    /\ LayerDecayPositive
    /\ ~cfg.finetune
    /\ opt.outcome = "raise"
    /\ opt.exc = "AssertionError"

RECURSIVE SumOver(_, _, _)
SumOver(I, results, key) ==
    IF I = {} THEN 0
    ELSE LET i == CHOOSE j \in I : TRUE
         IN results[i].batch_size * (IF key = "batch_size" THEN 1 ELSE results[i][key])
            + SumOver(I \ {i}, results, key)

BatchWeightedMean(results, key) ==
    Rat(SumOver(DOMAIN results, results, key), SumOver(DOMAIN results, results, "batch_size"))

\* C8: validation_epoch_end, given a non-empty sequence of per-batch results,
\* makes exactly one log_dict call, which holds exactly val_loss, val_acc1 and
\* val_acc5, each the batch-size-weighted mean sum(batch_size_i * value_i) /
\* sum(batch_size_i) of the per-batch values.
C8_WeightedMeanLogged ==
    (call.op = "validation_epoch_end" /\ call.outs # <<>>) =>
        /\ ret.outcome = "return"
        /\ Len(logged) = 1
        /\ DOMAIN logged[1].values = {"val_loss", "val_acc1", "val_acc5"}
        /\ \A key \in {"val_loss", "val_acc1", "val_acc5"} :
              RatEq(logged[1].values[key], BatchWeightedMean(call.outs, key))

\* batch sizes [3,3,2] with losses [1,2,3]: the logged val_loss is 1.875, which
\* is not the plain average 2
C8_Witness ==
    /\ call.op = "validation_epoch_end"
    /\ Len(call.outs) = 3
    /\ <<call.outs[1].batch_size, call.outs[2].batch_size, call.outs[3].batch_size>>
          = <<3, 3, 2>>
    /\ <<call.outs[1].val_loss, call.outs[2].val_loss, call.outs[3].val_loss>> = <<1, 2, 3>>
    /\ Len(logged) = 1
    /\ RatEq(logged[1].values.val_loss, Rat(1875, 1000))
    /\ ~RatEq(logged[1].values.val_loss, Rat(2, 1))

BoundariesPassed == Cardinality({i \in 1..Len(cfg.lr_decay_steps) : cfg.lr_decay_steps[i] <= epoch})

C10_WarmupCosineUnits ==
    (cfg.scheduler = "warmup_cosine" /\ opt.outcome = "return") =>
        LET spec == opt.value.schedulers[1]
            s == spec.scheduler
            est == trainer.estimated_stepping_batches
        IN /\ cfg.scheduler_interval = "step" =>
                 /\ RatEq(s.warmup_epochs, Rat(cfg.warmup_epochs * est, cfg.max_epochs))
                 /\ RatEq(s.max_epochs, Rat(est, 1))
           /\ cfg.scheduler_interval = "epoch" =>
                 /\ RatEq(s.warmup_epochs, Rat(cfg.warmup_epochs, 1))
                 /\ RatEq(s.max_epochs, Rat(cfg.max_epochs, 1))
           /\ s.warmup_epochs[1] * s.max_epochs[2] * cfg.max_epochs
                 = cfg.warmup_epochs * s.warmup_epochs[2] * s.max_epochs[1]
           /\ cfg.warmup_epochs > 0 => s.warmup_start_lr = cfg.warmup_start_lr
           /\ cfg.warmup_epochs = 0 => s.warmup_start_lr = cfg.lr
           /\ s.eta_min = cfg.min_lr
           /\ spec.interval = cfg.scheduler_interval
           /\ spec.frequency = 1

\* interval "step", 1 warmup epoch of 2 epochs, 3 estimated steps: warmup 1.5 steps
C10_Witness ==
    /\ cfg.scheduler = "warmup_cosine"
    /\ opt.outcome = "return"
    /\ cfg.scheduler_interval = "step"
    /\ cfg.warmup_epochs = 1
    /\ cfg.max_epochs = 2
    /\ trainer.estimated_stepping_batches = 3
    /\ RatEq(opt.value.schedulers[1].scheduler.warmup_epochs, Rat(3, 2))

============================================================================
